---- MODULE Spec2Model ----
(***************************************************************************)
(* A model of go-user-api: the user service (validation, pagination, age), *)
(* the storage gateway (repository over the SQL queries) and the HTTP      *)
(* handlers, as a state machine over the users table.                      *)
(*                                                                         *)
(* Strings are sequences of one-character strings, so that parsing and     *)
(* formatting are computed, not assumed.  A Go int (64 bits) is a pair     *)
(* <<h, l>> standing for h * 2^16 + l with l in 0..2^16-1, so that values  *)
(* beyond the model checker's own integers, and their narrowing to int32,  *)
(* are computed exactly.                                                   *)
(***************************************************************************)
EXTENDS Integers, Sequences, FiniteSets, TLC

VARIABLES users, nextId, now, resp, calls, before, made, lst, seen

vars == <<users, nextId, now, resp, calls, before, made, lst, seen>>

(***************************************************************************)
(* Bounds of the model.                                                    *)
(***************************************************************************)
\* ids the store's sequence hands out before inserts are no longer attempted
MaxUsers == 2
\* largest number of stored users in the pagination specification
MaxTotal == 25
\* ids handed out while requests are served concurrently
MaxInserts == 2

(***************************************************************************)
(* Go integers.                                                            *)
(***************************************************************************)
Limb == 2^16
HalfLimb == 2^15

\* the Go int with the value n, for n within the model checker's integers
W(n) == <<n \div Limb, n % Limb>>

\* the value of a Go int that fits the model checker's integers
WVal(w) == w[1] * Limb + w[2]

WFits(w) == w[1] >= -HalfLimb /\ w[1] < HalfLimb

WLess(a, b) == a[1] < b[1] \/ (a[1] = b[1] /\ a[2] < b[2])

WAddSmall(w, k) == <<w[1] + ((w[2] + k) \div Limb), (w[2] + k) % Limb>>

WMulSmall(w, k) == <<w[1] * k + ((w[2] * k) \div Limb), (w[2] * k) % Limb>>

\* int32(w): the low 32 bits, read as a signed number
ToInt32(w) ==
    LET hh == w[1] % Limb
    IN  IF hh >= HalfLimb THEN (hh - Limb) * Limb + w[2] ELSE hh * Limb + w[2]

(***************************************************************************)
(* Characters and decimal numbers.                                         *)
(***************************************************************************)
DigitChars == <<"0", "1", "2", "3", "4", "5", "6", "7", "8", "9">>

Digits == {DigitChars[i] : i \in 1..10}

DigitVal(c) == (CHOOSE i \in 1..10 : DigitChars[i] = c) - 1

AllDigits(s) == \A i \in 1..Len(s) : s[i] \in Digits

RECURSIVE DecimalValue(_)
DecimalValue(s) ==
    IF s = <<>> THEN W(0)
    ELSE WAddSmall(WMulSmall(DecimalValue(SubSeq(s, 1, Len(s) - 1)), 10),
                   DigitVal(s[Len(s)]))

WNeg(w) == IF w[2] = 0 THEN <<-w[1], 0>> ELSE <<-w[1] - 1, Limb - w[2]>>

\* strconv.Atoi: an optional sign, then one or more decimal digits; anything
\* else is a syntax error, for which the value is 0.  (A range error needs
\* more than 18 digits; the inputs of the model are shorter.)
Atoi(s) ==
    LET signed == s # <<>> /\ s[1] \in {"+", "-"}
        ds     == IF signed THEN Tail(s) ELSE s
    IN  IF ds = <<>> \/ ~AllDigits(ds)
        THEN [ok |-> FALSE, val |-> W(0)]
        ELSE [ok |-> TRUE,
              val |-> IF signed /\ s[1] = "-" THEN WNeg(DecimalValue(ds))
                      ELSE DecimalValue(ds)]

(***************************************************************************)
(* Dates: time.Parse and Time.Format with the layout "2006-01-02".         *)
(***************************************************************************)
IsLeap(y) == y % 4 = 0 /\ (y % 100 # 0 \/ y % 400 = 0)

DaysIn(m, y) ==
    IF m = 2 THEN (IF IsLeap(y) THEN 29 ELSE 28)
    ELSE IF m \in {4, 6, 9, 11} THEN 30 ELSE 31

Num2(s, i) == DigitVal(s[i]) * 10 + DigitVal(s[i + 1])

\* the zero time.Time, 0001-01-01
ZeroDate == [y |-> 1, m |-> 1, d |-> 1]

\* time.Parse("2006-01-02", s): a four-digit year, "-", a two-digit month,
\* "-", a two-digit day and nothing after it; the month in 1..12 and the
\* day within the month
ParseDate(s) ==
    IF /\ Len(s) = 10
       /\ \A i \in {1, 2, 3, 4, 6, 7, 9, 10} : s[i] \in Digits
       /\ s[5] = "-"
       /\ s[8] = "-"
    THEN LET y == Num2(s, 1) * 100 + Num2(s, 3)
             m == Num2(s, 6)
             d == Num2(s, 9)
         IN  IF m \in 1..12 /\ d >= 1 /\ d <= DaysIn(m, y)
             THEN [ok |-> TRUE, date |-> [y |-> y, m |-> m, d |-> d]]
             ELSE [ok |-> FALSE, date |-> ZeroDate]
    ELSE [ok |-> FALSE, date |-> ZeroDate]

ParseOK(s) == ParseDate(s).ok

Pad2(n) == <<DigitChars[((n \div 10) % 10) + 1], DigitChars[(n % 10) + 1]>>

\* t.Format("2006-01-02"), for the years 0..9999
FormatDate(t) ==
    Pad2(t.y \div 100) \o Pad2(t.y % 100) \o <<"-">> \o Pad2(t.m) \o <<"-">> \o Pad2(t.d)

\* parsePGDate reading the layout day-first ("2006-02-01")
parsePGDateDayFirst(s) ==
    LET t == ParseDate(s).date IN [y |-> t.y, m |-> t.d, d |-> t.m]

\* parsePGDate: the parse error is discarded and the date is marked valid
parsePGDate(s) == ParseDate(s).date

\* the day after t
NextDay(t) ==
    IF t.d < DaysIn(t.m, t.y) THEN [t EXCEPT !.d = t.d + 1]
    ELSE IF t.m < 12 THEN [t EXCEPT !.m = t.m + 1, !.d = 1]
    ELSE [y |-> t.y + 1, m |-> 1, d |-> 1]

(***************************************************************************)
(* userService.CalculateAge, with time.Now() as a parameter.               *)
(***************************************************************************)
\* CalculateAge counting the birthday itself as not yet reached
CalculateAgeDayAfter(today, dob) ==
    LET age == today.y - dob.y
    IN  IF today.m < dob.m \/ (today.m = dob.m /\ today.d <= dob.d)
        THEN age - 1
        ELSE age

\* CalculateAge without the month and day comparison
CalculateAgeYearsOnly(today, dob) == today.y - dob.y

CalculateAge(today, dob) ==
    LET age == today.y - dob.y
    IN  IF today.m < dob.m \/ (today.m = dob.m /\ today.d < dob.d)
        THEN age - 1
        ELSE age

(***************************************************************************)
(* Errors, as the messages the code builds them from.                      *)
(***************************************************************************)
NoError == ""
ErrEmptyName == "name cannot be empty"
ErrDateFormat == "invalid date format, use YYYY-MM-DD"
\* pgx.ErrNoRows, what a :one query returns when no row matches
ErrNoRows == "no rows in result set"
\* any failure of the round-trip itself: connectivity, cancellation, a
\* constraint of the table, an error raised by the SQL engine
ErrStore == "store failure"

\* db.User{}, what comes back beside an error
NoUser == [id |-> 0, name |-> <<>>, dob |-> ZeroDate]

(***************************************************************************)
(* The storage gateway: userRepository over the SQL queries.  The table is *)
(* a function from the ids present to [name, dob]; the timestamps, which   *)
(* no caller reads, are left out.  ok says whether the round-trip itself   *)
(* succeeds.                                                               *)
(***************************************************************************)
UserOf(u, id) == [id |-> id, name |-> u[id].name, dob |-> u[id].dob]

Put(u, id, row) == [i \in DOMAIN u \cup {id} |-> IF i = id THEN row ELSE u[i]]

Drop(u, id) == [i \in DOMAIN u \ {id} |-> u[i]]

RECURSIVE SortedIds(_)
SortedIds(S) ==
    IF S = {} THEN <<>>
    ELSE LET m == CHOOSE x \in S : \A y \in S : x <= y
         IN  <<m>> \o SortedIds(S \ {m})

Min(a, b) == IF a < b THEN a ELSE b

\* the id the table's sequence gives the next inserted row
FreshId(nid) == nid

\* one round-trip, as the service sees it: what it passed and what came back
Call(op, id, name, dob, r) ==
    [op |-> op, id |-> id, name |-> name, dob |-> dob, err |-> r.err, user |-> r.user]

\* an insert that also stores an age column
RepoCreateStoresAge(u, nid, name, dob, ok) ==
    IF ok
    THEN LET row == [name |-> name, dob |-> parsePGDate(dob), age |-> 0]
             u2  == Put(u, FreshId(nid), row)
         IN  [err |-> NoError, user |-> UserOf(u2, FreshId(nid)), users |-> u2]
    ELSE [err |-> ErrStore, user |-> NoUser, users |-> u]

\* INSERT INTO users (name, dob) VALUES ($1, $2) RETURNING ...
RepoCreate(u, nid, name, dob, ok) ==
    IF ok
    THEN LET row == [name |-> name, dob |-> parsePGDate(dob)]
             u2  == Put(u, FreshId(nid), row)
         IN  [err |-> NoError, user |-> UserOf(u2, FreshId(nid)), users |-> u2]
    ELSE [err |-> ErrStore, user |-> NoUser, users |-> u]

\* SELECT ... FROM users WHERE id = $1
RepoGetByID(u, id, ok) ==
    IF ~ok THEN [err |-> ErrStore, user |-> NoUser, users |-> u]
    ELSE IF id \in DOMAIN u THEN [err |-> NoError, user |-> UserOf(u, id), users |-> u]
    ELSE [err |-> ErrNoRows, user |-> NoUser, users |-> u]

\* UPDATE users SET name = $2, dob = $3, updated_at = NOW() WHERE id = $1 RETURNING ...
RepoUpdate(u, id, name, dob, ok) ==
    IF ~ok THEN [err |-> ErrStore, user |-> NoUser, users |-> u]
    ELSE IF id \in DOMAIN u
    THEN LET u2 == Put(u, id, [name |-> name, dob |-> parsePGDate(dob)])
         IN  [err |-> NoError, user |-> UserOf(u2, id), users |-> u2]
    ELSE [err |-> ErrNoRows, user |-> NoUser, users |-> u]

\* DELETE FROM users WHERE id = $1, run with :exec: the number of rows
\* affected is not looked at, so deleting no row is no error
RepoDelete(u, id, ok) ==
    IF ~ok THEN [err |-> ErrStore, user |-> NoUser, users |-> u]
    ELSE [err |-> NoError, user |-> NoUser, users |-> Drop(u, id)]

\* SELECT COUNT(*) FROM users
RepoCount(u, ok) ==
    IF ok THEN [err |-> NoError, total |-> Cardinality(DOMAIN u)]
    ELSE [err |-> ErrStore, total |-> 0]

\* SELECT ... FROM users ORDER BY id LIMIT $1 OFFSET $2; the engine rejects
\* a negative LIMIT or OFFSET
RepoList(u, limit, offset, ok) ==
    IF ~ok \/ limit < 0 \/ offset < 0 THEN [err |-> ErrStore, rows |-> <<>>]
    ELSE LET ids == SortedIds(DOMAIN u)
             lo  == Min(offset, Len(ids)) + 1
             hi  == IF offset >= Len(ids) THEN Len(ids)
                    ELSE Min(offset + limit, Len(ids))
         IN  [err |-> NoError,
              rows |-> [i \in 1..(hi - lo + 1) |-> UserOf(u, ids[lo + i - 1])]]

(***************************************************************************)
(* The user service.  Each operation yields its return values, the table   *)
(* after it and the round-trips it made.                                   *)
(***************************************************************************)
Refused(u, err) == [err |-> err, user |-> NoUser, users |-> u, calls |-> <<>>]

Delegated(op, id, name, dob, r) ==
    [err |-> r.err, user |-> r.user, users |-> r.users,
     calls |-> <<Call(op, id, name, dob, r)>>]

\* CreateUser without its check of the date
CreateUserNoDateCheck(u, nid, name, dob, ok) ==
    IF name = <<>> THEN Refused(u, ErrEmptyName)
    ELSE Delegated("Create", 0, name, dob, RepoCreate(u, nid, name, dob, ok))

\* CreateUser reporting a failed insert as a refused date
CreateUserMasksStoreError(u, nid, name, dob, ok) ==
    IF name = <<>> THEN Refused(u, ErrEmptyName)
    ELSE IF ~ParseOK(dob) THEN Refused(u, ErrDateFormat)
    ELSE LET r == Delegated("Create", 0, name, dob, RepoCreate(u, nid, name, dob, ok))
         IN  IF r.err # NoError THEN [r EXCEPT !.err = ErrDateFormat] ELSE r

CreateUser(u, nid, name, dob, ok) ==
    IF name = <<>> THEN Refused(u, ErrEmptyName)
    ELSE IF ~ParseOK(dob) THEN Refused(u, ErrDateFormat)
    ELSE Delegated("Create", 0, name, dob, RepoCreate(u, nid, name, dob, ok))

\* GetUserByID trying once more when the round-trip fails
GetUserByIDRetry(u, id, ok) ==
    LET first == Delegated("GetByID", id, <<>>, <<>>, RepoGetByID(u, id, ok))
        again == Delegated("GetByID", id, <<>>, <<>>, RepoGetByID(u, id, TRUE))
    IN  IF first.err = ErrStore THEN [again EXCEPT !.calls = first.calls \o again.calls]
        ELSE first

GetUserByID(u, id, ok) ==
    Delegated("GetByID", id, <<>>, <<>>, RepoGetByID(u, id, ok))

\* UpdateUser without its check of the name
UpdateUserNoNameCheck(u, id, name, dob, ok) ==
    IF ~ParseOK(dob) THEN Refused(u, ErrDateFormat)
    ELSE Delegated("Update", id, name, dob, RepoUpdate(u, id, name, dob, ok))

UpdateUser(u, id, name, dob, ok) ==
    IF name = <<>> THEN Refused(u, ErrEmptyName)
    ELSE IF ~ParseOK(dob) THEN Refused(u, ErrDateFormat)
    ELSE Delegated("Update", id, name, dob, RepoUpdate(u, id, name, dob, ok))

DeleteUser(u, id, ok) ==
    Delegated("Delete", id, <<>>, <<>>, RepoDelete(u, id, ok))

\* the first lines of ListUsers: the page, the limit and the offset
NormPage(page) == IF WLess(page, W(1)) THEN W(1) ELSE page

DefaultLimit == 10
MaxLimit == 100

NormLimit(limit) ==
    IF WLess(limit, W(1)) THEN DefaultLimit
    ELSE IF WLess(W(MaxLimit), limit) THEN MaxLimit
    ELSE WVal(limit)

Offset(page, limit) == WMulSmall(WAddSmall(page, -1), limit)

\* the total pages rounded down
TotalPagesFloor(total, limit) == total \div limit

TotalPages(total, limit) == (total + limit - 1) \div limit

\* models.UsersListResponse{}, what comes back beside an error
NoEnvelope == [data |-> <<>>, total |-> 0, page |-> W(0), limit |-> 0, totalPages |-> 0]

CountCall(r) == [op |-> "Count", err |-> r.err, total |-> r.total]

ListCall(limit, offset, r) ==
    [op |-> "List", limit |-> limit, offset |-> offset, err |-> r.err, rows |-> r.rows]

\* ListUsers up to and including its first round-trip, the count
ListUsersCount(u, page, limit, ok) ==
    LET p == NormPage(page)
        l == NormLimit(limit)
        c == RepoCount(u, ok)
    IN  [page |-> p, limit |-> l, offset |-> Offset(p, l), total |-> c.total,
         err |-> c.err, calls |-> <<CountCall(c)>>]

\* the users of a page as the envelope carries them, each with its age
Described(rows, today) ==
    [i \in 1..Len(rows) |-> [id |-> rows[i].id, name |-> rows[i].name,
                             dob |-> FormatDate(rows[i].dob), hasAge |-> TRUE,
                             age |-> CalculateAge(today, rows[i].dob)]]

\* ListUsers reporting the total of the table the page was read from
ListUsersPageRecount(u, today, c, ok) ==
    LET limit32  == ToInt32(W(c.limit))
        offset32 == ToInt32(c.offset)
        r        == RepoList(u, limit32, offset32, ok)
        call     == ListCall(limit32, offset32, r)
    IN  IF r.err # NoError
        THEN [err |-> r.err, env |-> NoEnvelope, calls |-> c.calls \o <<call>>]
        ELSE [err |-> NoError,
              env |-> [data |-> Described(r.rows, today),
                       total |-> Cardinality(DOMAIN u),
                       page |-> c.page, limit |-> c.limit,
                       totalPages |-> TotalPages(Cardinality(DOMAIN u), c.limit)],
              calls |-> c.calls \o <<call>>]

\* ListUsers from its second round-trip, the page, to its return
ListUsersPage(u, today, c, ok) ==
    LET limit32  == ToInt32(W(c.limit))
        offset32 == ToInt32(c.offset)
        r        == RepoList(u, limit32, offset32, ok)
        call     == ListCall(limit32, offset32, r)
    IN  IF r.err # NoError
        THEN [err |-> r.err, env |-> NoEnvelope, calls |-> c.calls \o <<call>>]
        ELSE [err |-> NoError,
              env |-> [data |-> Described(r.rows, today), total |-> c.total,
                       page |-> c.page, limit |-> c.limit,
                       totalPages |-> TotalPages(c.total, c.limit)],
              calls |-> c.calls \o <<call>>]


(***************************************************************************)
(* The HTTP handlers.                                                      *)
(***************************************************************************)
StatusOK == 200
StatusCreated == 201
StatusNoContent == 204
StatusBadRequest == 400
StatusNotFound == 404
StatusInternalServerError == 500

NameMin == 2
NameMax == 100

\* validate.Struct on CreateUserRequest / UpdateUserRequest:
\* Name required,min=2,max=100 and DOB required
ValidRequest(body) ==
    /\ body.name # <<>>
    /\ Len(body.name) >= NameMin
    /\ Len(body.name) <= NameMax
    /\ body.dob # <<>>

ErrorJSON(msg) == [error |-> msg]

\* models.UserResponse; Age is a pointer with omitempty, so it is left out
\* exactly when it was not set
UserJSON(user, hasAge, age) ==
    [id |-> user.id, name |-> user.name, dob |-> FormatDate(user.dob),
     hasAge |-> hasAge, age |-> age]

NoBody == [empty |-> TRUE]

NotCalled(u) == Refused(u, NoError)

Answer(status, body, called, r) ==
    [status |-> status, body |-> body, called |-> called, err |-> r.err,
     user |-> r.user, users |-> r.users, calls |-> r.calls]

HandleCreateUser(u, nid, body, ok) ==
    IF body.bad
    THEN Answer(StatusBadRequest, ErrorJSON("Invalid request body"), FALSE, NotCalled(u))
    ELSE IF ~ValidRequest(body)
    THEN Answer(StatusBadRequest, ErrorJSON("Validation failed"), FALSE, NotCalled(u))
    ELSE LET r == CreateUser(u, nid, body.name, body.dob, ok)
         IN  IF r.err # NoError
             THEN Answer(StatusBadRequest, ErrorJSON(r.err), TRUE, r)
             ELSE Answer(StatusCreated, UserJSON(r.user, FALSE, 0), TRUE, r)

HandleGetUser(u, today, idStr, ok) ==
    LET id == Atoi(idStr)
    IN  IF ~id.ok
        THEN Answer(StatusBadRequest, ErrorJSON("Invalid user ID"), FALSE, NotCalled(u))
        ELSE LET r == GetUserByID(u, ToInt32(id.val), ok)
             IN  IF r.err # NoError
                 THEN Answer(StatusNotFound, ErrorJSON("User not found"), TRUE, r)
                 ELSE Answer(StatusOK,
                             UserJSON(r.user, TRUE, CalculateAge(today, r.user.dob)),
                             TRUE, r)

\* UpdateUser echoing an age in its response
HandleUpdateUserWithAge(u, idStr, body, ok) ==
    LET id == Atoi(idStr)
    IN  IF ~id.ok
        THEN Answer(StatusBadRequest, ErrorJSON("Invalid user ID"), FALSE, NotCalled(u))
        ELSE IF body.bad
        THEN Answer(StatusBadRequest, ErrorJSON("Invalid request body"), FALSE, NotCalled(u))
        ELSE IF ~ValidRequest(body)
        THEN Answer(StatusBadRequest, ErrorJSON("Validation failed"), FALSE, NotCalled(u))
        ELSE LET r == UpdateUser(u, ToInt32(id.val), body.name, body.dob, ok)
             IN  IF r.err # NoError
                 THEN Answer(StatusBadRequest, ErrorJSON(r.err), TRUE, r)
                 ELSE Answer(StatusOK, UserJSON(r.user, TRUE, 0), TRUE, r)

HandleUpdateUser(u, idStr, body, ok) ==
    LET id == Atoi(idStr)
    IN  IF ~id.ok
        THEN Answer(StatusBadRequest, ErrorJSON("Invalid user ID"), FALSE, NotCalled(u))
        ELSE IF body.bad
        THEN Answer(StatusBadRequest, ErrorJSON("Invalid request body"), FALSE, NotCalled(u))
        ELSE IF ~ValidRequest(body)
        THEN Answer(StatusBadRequest, ErrorJSON("Validation failed"), FALSE, NotCalled(u))
        ELSE LET r == UpdateUser(u, ToInt32(id.val), body.name, body.dob, ok)
             IN  IF r.err # NoError
                 THEN Answer(StatusBadRequest, ErrorJSON(r.err), TRUE, r)
                 ELSE Answer(StatusOK, UserJSON(r.user, FALSE, 0), TRUE, r)

HandleDeleteUser(u, idStr, ok) ==
    LET id == Atoi(idStr)
    IN  IF ~id.ok
        THEN Answer(StatusBadRequest, ErrorJSON("Invalid user ID"), FALSE, NotCalled(u))
        ELSE LET r == DeleteUser(u, ToInt32(id.val), ok)
             IN  IF r.err # NoError
                 THEN Answer(StatusNotFound, ErrorJSON("User not found"), TRUE, r)
                 ELSE Answer(StatusNoContent, NoBody, TRUE, r)

\* c.Query(key, fallback) followed by strconv.Atoi with its error dropped
QueryInt(str, fallback) == Atoi(IF str = <<>> THEN fallback ELSE str).val

\* what UserHandler.ListUsers answers once the service has returned
ListAnswer(r) ==
    IF r.err # NoError
    THEN [status |-> StatusInternalServerError, body |-> ErrorJSON("Failed to retrieve users")]
    ELSE [status |-> StatusOK, body |-> r.env]

(***************************************************************************)
(* The inputs the model draws from.                                        *)
(***************************************************************************)
Rep(n, c) == [i \in 1..n |-> c]

\* names handed to the service directly
Names == {<<>>, <<"a">>, <<"a", "l">>, Rep(NameMax, "x")}

\* names in request bodies
BodyNames == Names \cup {Rep(NameMax + 1, "x")}

DobStrings ==
    { <<"2", "0", "0", "0", "-", "0", "6", "-", "1", "5">>,
      <<"1", "9", "9", "9", "-", "1", "2", "-", "3", "1">>,
      <<"n", "o", "t", "-", "a", "-", "d", "a", "t", "e">>,
      <<"2", "0", "2", "3", "-", "0", "2", "-", "2", "9">>,
      <<>> }

RECURSIVE DecStr(_)
DecStr(n) ==
    IF n < 10 THEN <<DigitChars[n + 1]>>
    ELSE DecStr(n \div 10) \o <<DigitChars[(n % 10) + 1]>>

\* an id no insert of the model ever hands out
AbsentId == MaxUsers + 5

SvcIds == 1..MaxUsers \cup {AbsentId}

\* 2^32 + 1, which int32() narrows to 1
WrapsToOne == <<"4", "2", "9", "4", "9", "6", "7", "2", "9", "7">>

PathIds == {DecStr(i) : i \in SvcIds} \cup {WrapsToOne, <<"x">>}

Bodies ==
    {[bad |-> FALSE, name |-> n, dob |-> d] : n \in BodyNames, d \in DobStrings}
    \cup {[bad |-> TRUE, name |-> <<>>, dob |-> <<>>]}

Date(y, m, d) == [y |-> y, m |-> m, d |-> d]

Days == {Date(2024, 6, 14), Date(2024, 6, 15)}

\* pages and limits handed to the service directly, and as query strings
PageInts == {-1, 0, 1, 2, 3, 4, 21474838, 42949674}

LimitInts == {-5, 0, 1, 10, 100, 101, 1000}

PageStrs == {<<>>, <<"0">>, <<"2">>, <<"-", "1">>, <<"x">>, DecStr(42949674)}

LimitStrs == {<<>>, <<"0">>, <<"5">>, <<"x">>, DecStr(1000)}

\* the current dates and the dates of birth of the age specification
AgeDays ==
    { Date(2024, 6, 14), Date(2024, 6, 15), Date(2024, 6, 16),
      Date(2023, 2, 28), Date(2023, 3, 1),
      Date(2024, 2, 28), Date(2024, 2, 29), Date(2024, 3, 1),
      Date(2024, 1, 15), Date(2024, 12, 31), Date(2025, 1, 1),
      Date(2120, 2, 28), Date(2120, 2, 29), Date(2120, 3, 1) }

AgeDobs ==
    { Date(2000, 6, 14), Date(2000, 6, 15), Date(2000, 6, 16), Date(2024, 6, 15),
      Date(2000, 2, 29), Date(2004, 2, 29), Date(2003, 3, 1), Date(2003, 2, 28),
      Date(1999, 12, 31), Date(2000, 1, 1), Date(2004, 7, 1), Date(2004, 5, 31),
      Date(2025, 1, 1) }

\* the table holding n users, the ids 1..n
Filled(n) ==
    [i \in 1..n |-> [name |-> <<"a", "l">>, dob |-> Date(2000, 6, 15)]]

(***************************************************************************)
(* The state machine.  users is the table and nextId its sequence; now is  *)
(* the current date.  resp is the call or request that has just finished,  *)
(* with what it was given and what it answered, until its caller takes the *)
(* answer; calls are the round-trips it made and before is the table it    *)
(* started from.  made remembers the latest successful create until the    *)
(* next successful write.  lst is a ListUsers between its two round-trips. *)
(***************************************************************************)
NoTable == [i \in {} |-> NoUser]

Idle == [pc |-> "idle"]

NoCall == [via |-> "none", op |-> "none"]

NotMade == [id |-> 0, name |-> <<>>, dob |-> <<>>]

\* no user read since the last write
NotSeen == [id |-> 0, age |-> 0, at |-> ZeroDate]

Init ==
    /\ users = NoTable
    /\ nextId = 1
    /\ now = Date(2024, 6, 14)
    /\ resp = NoCall
    /\ calls = <<>>
    /\ before = NoTable
    /\ made = NotMade
    /\ seen = NotSeen
    /\ lst = Idle

Input(idStr, id, name, dob) ==
    [idStr |-> idStr, id |-> id, bad |-> FALSE, name |-> name, dob |-> dob]

Remember(r, op, in) ==
    IF r.users = users THEN made
    ELSE IF op = "Create" THEN [id |-> r.user.id, name |-> in.name, dob |-> in.dob]
    ELSE NotMade

\* the table, the sequence and the record of one finished service call
Finish(r, op, in) ==
    /\ users' = r.users
    /\ nextId' = IF DOMAIN r.users \subseteq DOMAIN users THEN nextId ELSE nextId + 1
    /\ before' = users
    /\ calls' = r.calls
    /\ made' = Remember(r, op, in)
    /\ resp' = [via |-> "svc", op |-> op, in |-> in, called |-> TRUE, err |-> r.err,
                user |-> r.user, status |-> 0, body |-> NoBody, at |-> now]
    /\ UNCHANGED <<now, lst, seen>>

\* the same for one finished HTTP request
Respond(a, op, in) ==
    /\ users' = a.users
    /\ nextId' = IF DOMAIN a.users \subseteq DOMAIN users THEN nextId ELSE nextId + 1
    /\ before' = users
    /\ calls' = a.calls
    /\ made' = Remember(a, op, in)
    /\ resp' = [via |-> "http", op |-> op, in |-> in, called |-> a.called,
                err |-> a.err, user |-> a.user, status |-> a.status, body |-> a.body,
                at |-> now]
    /\ UNCHANGED <<now, lst>>

SvcCreateUser(name, dob, ok) ==
    /\ resp.op = "none"
    /\ nextId <= MaxUsers
    /\ Finish(CreateUser(users, nextId, name, dob, ok), "Create", Input(<<>>, 0, name, dob))

SvcGetUserByID(id, ok) ==
    /\ resp.op = "none"
    /\ Finish(GetUserByID(users, id, ok), "Get", Input(<<>>, id, <<>>, <<>>))

SvcUpdateUser(id, name, dob, ok) ==
    /\ resp.op = "none"
    /\ Finish(UpdateUser(users, id, name, dob, ok), "Update", Input(<<>>, id, name, dob))

SvcDeleteUser(id, ok) ==
    /\ resp.op = "none"
    /\ Finish(DeleteUser(users, id, ok), "Delete", Input(<<>>, id, <<>>, <<>>))

HttpInput(idStr, body) ==
    [idStr |-> idStr, id |-> ToInt32(Atoi(idStr).val), bad |-> body.bad,
     name |-> body.name, dob |-> body.dob]

NoRequestBody == [bad |-> FALSE, name |-> <<>>, dob |-> <<>>]

HttpCreateUser(body, ok) ==
    /\ resp.op = "none"
    /\ nextId <= MaxUsers
    /\ Respond(HandleCreateUser(users, nextId, body, ok), "Create", HttpInput(<<>>, body))
    /\ UNCHANGED seen

HttpGetUser(idStr, ok) ==
    /\ resp.op = "none"
    /\ Respond(HandleGetUser(users, now, idStr, ok), "Get", HttpInput(idStr, NoRequestBody))
    /\ UNCHANGED seen

HttpUpdateUser(idStr, body, ok) ==
    /\ resp.op = "none"
    /\ Respond(HandleUpdateUser(users, idStr, body, ok), "Update", HttpInput(idStr, body))
    /\ UNCHANGED seen

HttpDeleteUser(idStr, ok) ==
    /\ resp.op = "none"
    /\ Respond(HandleDeleteUser(users, idStr, ok), "Delete", HttpInput(idStr, NoRequestBody))
    /\ UNCHANGED seen

\* the caller takes the answer
Return ==
    /\ resp.op # "none"
    /\ resp' = NoCall
    /\ calls' = <<>>
    /\ before' = users
    /\ UNCHANGED <<users, nextId, now, made, lst, seen>>

\* midnight passes
Midnight(days) ==
    /\ NextDay(now) \in days
    /\ now' = NextDay(now)
    /\ UNCHANGED <<users, nextId, resp, calls, before, made, lst, seen>>

Tick == Midnight(Days)

\* the service called directly, as its unit tests call it
Next ==
    \/ \E n \in Names, d \in DobStrings, ok \in BOOLEAN : SvcCreateUser(n, d, ok)
    \/ \E i \in SvcIds, ok \in BOOLEAN : SvcGetUserByID(i, ok)
    \/ \E i \in SvcIds, n \in Names, d \in DobStrings, ok \in BOOLEAN :
          SvcUpdateUser(i, n, d, ok)
    \/ \E i \in SvcIds, ok \in BOOLEAN : SvcDeleteUser(i, ok)
    \/ Return

Spec == Init /\ [][Next]_vars

\* the service behind its handlers, as the server runs it
NextHttp ==
    \/ \E b \in Bodies, ok \in BOOLEAN : HttpCreateUser(b, ok)
    \/ \E s \in PathIds, ok \in BOOLEAN : HttpGetUser(s, ok)
    \/ \E s \in PathIds, b \in Bodies, ok \in BOOLEAN : HttpUpdateUser(s, b, ok)
    \/ \E s \in PathIds, ok \in BOOLEAN : HttpDeleteUser(s, ok)
    \/ Return
    \/ Tick

SpecHttp == Init /\ [][NextHttp]_vars

(***************************************************************************)
(* ListUsers, one step for each of its two round-trips.                    *)
(***************************************************************************)
ListInput(pageStr, limitStr, page, limit) ==
    [pageStr |-> pageStr, limitStr |-> limitStr, page |-> page, limit |-> limit]

ListResp(via, in, err, env, a) ==
    [via |-> via, op |-> "List", in |-> in, called |-> TRUE, err |-> err, env |-> env,
     status |-> a.status, body |-> a.body, at |-> now]

NoAnswer == [status |-> 0, body |-> NoBody]

AnswerFor(via, r) == IF via = "http" THEN ListAnswer(r) ELSE NoAnswer

\* the count; when it fails ListUsers returns at once
ListUsersBegin(via, in, ok) ==
    LET c == ListUsersCount(users, in.page, in.limit, ok)
        r == [err |-> c.err, env |-> NoEnvelope]
    IN  /\ lst.pc = "idle"
        /\ IF c.err # NoError
           THEN /\ resp' = ListResp(via, in, c.err, NoEnvelope, AnswerFor(via, r))
                /\ calls' = c.calls
                /\ lst' = Idle
           ELSE /\ lst' = [pc |-> "counted", via |-> via, in |-> in, c |-> c]
                /\ UNCHANGED <<resp, calls>>
        /\ before' = users
        /\ UNCHANGED <<users, nextId, now, made, seen>>

SvcListUsers(page, limit, ok) ==
    /\ resp.op = "none"
    /\ ListUsersBegin("svc", ListInput(<<>>, <<>>, W(page), W(limit)), ok)

HttpListUsers(pageStr, limitStr, ok) ==
    /\ resp.op = "none"
    /\ ListUsersBegin("http",
                      ListInput(pageStr, limitStr, QueryInt(pageStr, <<"1">>),
                                QueryInt(limitStr, <<"1", "0">>)),
                      ok)

\* the page, and the return
ListUsersEnd(ok) ==
    LET r == ListUsersPage(users, now, lst.c, ok)
    IN  /\ resp.op = "none"
        /\ lst.pc = "counted"
        /\ resp' = ListResp(lst.via, lst.in, r.err, r.env, AnswerFor(lst.via, r))
        /\ calls' = r.calls
        /\ lst' = Idle
        /\ before' = users
        /\ UNCHANGED <<users, nextId, now, made, seen>>

\* ids deleted since the inserts: none, or the second
Deleted == {0, 2}

InitPage ==
    /\ \E n \in 0..MaxTotal, gone \in Deleted :
           /\ users = Drop(Filled(n), gone)
           /\ nextId = n + 1
           /\ before = Drop(Filled(n), gone)
    /\ now = Date(2024, 6, 14)
    /\ resp = NoCall
    /\ calls = <<>>
    /\ made = NotMade
    /\ seen = NotSeen
    /\ lst = Idle

\* pagination over a table that nobody writes
NextPage ==
    \/ \E p \in PageInts, l \in LimitInts, ok \in BOOLEAN : SvcListUsers(p, l, ok)
    \/ \E p \in PageStrs, l \in LimitStrs, ok \in BOOLEAN : HttpListUsers(p, l, ok)
    \/ \E ok \in BOOLEAN : ListUsersEnd(ok)
    \/ Return

SpecPage == InitPage /\ [][NextPage]_vars

(***************************************************************************)
(* The server under concurrent requests: a request may be served between   *)
(* the two round-trips of a ListUsers in flight.                           *)
(***************************************************************************)
ServerBodies ==
    { [bad |-> FALSE, name |-> <<"a", "l">>,
       dob |-> <<"2", "0", "0", "0", "-", "0", "6", "-", "1", "5">>],
      [bad |-> FALSE, name |-> <<"a", "l">>,
       dob |-> <<"1", "9", "9", "9", "-", "1", "2", "-", "3", "1">>] }

ServerPathIds == {DecStr(i) : i \in 1..MaxInserts}

ServerPages == {<<>>, <<"2">>}

ServerLimits == {<<>>, <<"1">>}

\* the first age read of a user since the last write, for a later read to be
\* compared with
Noted(a, op) ==
    IF op \in {"Create", "Update", "Delete"} /\ a.calls # <<>> THEN NotSeen
    ELSE IF op = "Get" /\ a.status = StatusOK /\ seen = NotSeen
    THEN [id |-> a.user.id, age |-> a.body.age, at |-> now]
    ELSE seen

ServerCreateUser(body, ok) ==
    LET a == HandleCreateUser(users, nextId, body, ok)
    IN  /\ resp.op = "none"
        /\ nextId <= MaxInserts
        /\ Respond(a, "Create", HttpInput(<<>>, body))
        /\ seen' = Noted(a, "Create")

ServerGetUser(idStr, ok) ==
    LET a == HandleGetUser(users, now, idStr, ok)
    IN  /\ resp.op = "none"
        /\ Respond(a, "Get", HttpInput(idStr, NoRequestBody))
        /\ seen' = Noted(a, "Get")

ServerUpdateUser(idStr, body, ok) ==
    LET a == HandleUpdateUser(users, idStr, body, ok)
    IN  /\ resp.op = "none"
        /\ Respond(a, "Update", HttpInput(idStr, body))
        /\ seen' = Noted(a, "Update")

ServerDeleteUser(idStr, ok) ==
    LET a == HandleDeleteUser(users, idStr, ok)
    IN  /\ resp.op = "none"
        /\ Respond(a, "Delete", HttpInput(idStr, NoRequestBody))
        /\ seen' = Noted(a, "Delete")

NextServer ==
    \/ \E b \in ServerBodies, ok \in BOOLEAN : ServerCreateUser(b, ok)
    \/ \E s \in ServerPathIds, ok \in BOOLEAN : ServerGetUser(s, ok)
    \/ \E s \in ServerPathIds, b \in ServerBodies, ok \in BOOLEAN : ServerUpdateUser(s, b, ok)
    \/ \E s \in ServerPathIds, ok \in BOOLEAN : ServerDeleteUser(s, ok)
    \/ \E p \in ServerPages, l \in ServerLimits, ok \in BOOLEAN : HttpListUsers(p, l, ok)
    \/ \E ok \in BOOLEAN : ListUsersEnd(ok)
    \/ Return
    \/ Tick

SpecServer == Init /\ [][NextServer]_vars

(***************************************************************************)
(* CalculateAge called on its own.                                         *)
(***************************************************************************)
\* the age of dob today; how names how the caller came by the dob
AgeOf(dob, how) ==
    /\ resp.op = "none"
    /\ resp' = [via |-> "svc", op |-> "Age", in |-> [dob |-> dob, how |-> how],
                at |-> now, age |-> CalculateAge(now, dob)]
    /\ UNCHANGED <<users, nextId, now, calls, before, made, lst, seen>>

SvcCalculateAge(dob) ==
    /\ resp.op = "none"
    /\ AgeOf(dob, "given")

\* time.Date(y, m, d, ...) for a month from 0 to 13 and a day from 1 to 31:
\* a month out of range moves the year, a day past the end of the month
\* moves into the next month
GoDate(y, m, d) ==
    LET y1 == y + ((m - 1) \div 12)
        m1 == ((m - 1) % 12) + 1
        n  == DaysIn(m1, y1)
    IN  IF d <= n THEN Date(y1, m1, d)
        ELSE IF m1 < 12 THEN Date(y1, m1 + 1, d - n)
        ELSE Date(y1 + 1, 1, d - n)

\* the dates of birth TestCalculateAge builds from time.Now()
TestCases == {"passed", "today", "not yet", "born"}

TestDob(today, how) ==
    IF how = "passed" THEN GoDate(today.y - 20, today.m - 1, 1)
    ELSE IF how = "today" THEN GoDate(today.y - 20, today.m, today.d)
    ELSE IF how = "not yet" THEN GoDate(today.y - 20, today.m + 1, 1)
    ELSE today

TestCalculateAge(how) ==
    /\ resp.op = "none"
    /\ AgeOf(TestDob(now, how), how)

TickAge == Midnight(AgeDays)

InitAge ==
    /\ users = NoTable
    /\ nextId = 1
    /\ now \in AgeDays
    /\ resp = NoCall
    /\ calls = <<>>
    /\ before = NoTable
    /\ made = NotMade
    /\ seen = NotSeen
    /\ lst = Idle

NextAge ==
    \/ \E d \in AgeDobs : SvcCalculateAge(d)
    \/ \E how \in TestCases : TestCalculateAge(how)
    \/ Return
    \/ TickAge

SpecAge == InitAge /\ [][NextAge]_vars

(***************************************************************************)
(* The claims.  A finished call is read off resp, calls and before.        *)
(***************************************************************************)
IsValidationError(e) == e \in {ErrEmptyName, ErrDateFormat}

IsNotFound(e) == e = ErrNoRows

SvcDone(op) == resp.op = op /\ resp.via = "svc"

HttpDone(op) == resp.op = op /\ resp.via = "http"

\* a is before b in the lexicographic order of number sequences of one length
LexBefore(a, b) ==
    \E i \in 1..Len(a) : a[i] < b[i] /\ \A j \in 1..(i - 1) : a[j] = b[j]

\* what the spec asks of a page, a limit and an offset, on plain integers
WantPage(page) == IF page < 1 THEN 1 ELSE page

WantLimit(limit) == IF limit < 1 THEN 10 ELSE IF limit > 100 THEN 100 ELSE limit

\* x = (page - 1) * limit, said without forming the product
IsOffset(x, page, limit) == x >= 0 /\ x % limit = 0 /\ x \div limit = page - 1

\* C1: whenever ListUsers has reached the gateway's list, it called it with
\* the normalised limit and with offset = (page - 1) * limit for the
\* normalised page, and a returned envelope reports that page and limit;
\* ListUsers(0, 0) returns the envelope of ListUsers(1, 10) and
\* ListUsers(1, 1000) that of ListUsers(1, 100) over the same table.
C1_ListUsersNormalises ==
    (SvcDone("List") /\ Len(calls) = 2) =>
        LET page  == WantPage(WVal(resp.in.page))
            limit == WantLimit(WVal(resp.in.limit))
            same(p, l) ==
                ListUsersPage(before, now, ListUsersCount(before, W(p), W(l), TRUE), TRUE).env
        IN  /\ calls[2].op = "List"
            /\ calls[2].limit = limit
            /\ IsOffset(calls[2].offset, page, limit)
            /\ resp.err = NoError =>
                   /\ resp.env.page = W(page)
                   /\ resp.env.limit = limit
                   /\ (resp.in.page = W(0) /\ resp.in.limit = W(0)) => resp.env = same(1, 10)
                   /\ (resp.in.page = W(1) /\ resp.in.limit = W(1000)) =>
                          resp.env = same(1, 100)

\* C2: the totalPages of a returned envelope is the ceiling of total / limit
\* for the total the count returned: the least n with n * limit >= total;
\* 0 for no users, 3 for 25 users in pages of 10, 2 for 20.
C2_TotalPagesIsCeiling ==
    (resp.op = "List" /\ resp.err = NoError) =>
        LET total == resp.env.total
            limit == resp.env.limit
            n     == resp.env.totalPages
        IN  /\ Len(calls) = 2
            /\ calls[1].op = "Count"
            /\ total = calls[1].total
            /\ total = Cardinality(DOMAIN before)
            /\ limit \in 1..100
            /\ n >= 0
            /\ n * limit >= total
            /\ \A k \in 0..(n - 1) : k * limit < total
            /\ total = 0 => n = 0
            /\ (total = 25 /\ limit = 10) => n = 3
            /\ (total = 20 /\ limit = 10) => n = 2

C2_Witness ==
    /\ resp.op = "List"
    /\ resp.err = NoError
    /\ resp.env.total = 25
    /\ resp.env.limit = 10
    /\ resp.env.totalPages = 3

\* C3: CalculateAge(dob) is now.year - dob.year, less 1 exactly when
\* (now.month, now.day) is lexicographically before (dob.month, dob.day);
\* on 2024-06-15 the dobs 2000-06-15, 2000-06-16, 2000-06-14 and 2024-06-15
\* give 24, 23, 24 and 0, and a dob equal to today gives 0.
C3_AgeRule ==
    SvcDone("Age") =>
        LET t   == resp.at
            dob == resp.in.dob
        IN  /\ resp.age = (t.y - dob.y)
                          - (IF LexBefore(<<t.m, t.d>>, <<dob.m, dob.d>>) THEN 1 ELSE 0)
            /\ dob = t => resp.age = 0
            /\ t = Date(2024, 6, 15) =>
                   /\ dob = Date(2000, 6, 15) => resp.age = 24
                   /\ dob = Date(2000, 6, 16) => resp.age = 23
                   /\ dob = Date(2000, 6, 14) => resp.age = 24
                   /\ dob = Date(2024, 6, 15) => resp.age = 0
            /\ (t = Date(2023, 2, 28) /\ dob = Date(2000, 2, 29)) => resp.age = 22
            /\ (t = Date(2023, 3, 1) /\ dob = Date(2000, 2, 29)) => resp.age = 23

C3_Witness ==
    /\ SvcDone("Age")
    /\ resp.at = Date(2024, 6, 15)
    /\ resp.in.dob = Date(2000, 6, 15)
    /\ resp.age = 24

\* C4: CreateUser and UpdateUser given an empty name fail with the
\* validation error for the name, whatever the dob and the id, make no
\* round-trip and leave the table as it was.
C4_EmptyNameRefused ==
    ((SvcDone("Create") \/ SvcDone("Update")) /\ resp.in.name = <<>>) =>
        /\ resp.err = ErrEmptyName
        /\ IsValidationError(resp.err)
        /\ resp.user = NoUser
        /\ calls = <<>>
        /\ users = before

C4_Witness ==
    /\ SvcDone("Update")
    /\ resp.in.name = <<>>
    /\ resp.in.id \in DOMAIN users
    /\ ParseOK(resp.in.dob)
    /\ resp.err = ErrEmptyName

\* C5: the gateway's create and update are only ever called with a dob that
\* parses as YYYY-MM-DD: a dob that does not parse is refused with the
\* validation error before any round-trip, so no stored date is the zero
\* date parsePGDate makes of a string it cannot parse.
C5_OnlyParsedDatesReachTheGateway ==
    /\ \A i \in 1..Len(calls) :
           calls[i].op \in {"Create", "Update"} => ParseOK(calls[i].dob)
    /\ ((SvcDone("Create") \/ SvcDone("Update")) /\ ~ParseOK(resp.in.dob)) =>
           /\ IsValidationError(resp.err)
           /\ calls = <<>>
           /\ users = before
    /\ \A i \in DOMAIN users : users[i].dob # ZeroDate

C5_Witness ==
    /\ SvcDone("Update")
    /\ resp.in.name # <<>>
    /\ resp.in.id \in DOMAIN users
    /\ ~ParseOK(resp.in.dob)
    /\ resp.err = ErrDateFormat

\* C6: CreateUser given a name of 2 to 100 characters and a dob that is a
\* valid date calls the gateway's create exactly once, with that name and
\* dob, and returns what the gateway returned: the created user, now in the
\* table, or the store's own error with the table as it was.
C6_ValidCreateDelegates ==
    (/\ SvcDone("Create")
     /\ Len(resp.in.name) >= 2
     /\ Len(resp.in.name) <= 100
     /\ ParseOK(resp.in.dob)) =>
        /\ Len(calls) = 1
        /\ calls[1].op = "Create"
        /\ calls[1].name = resp.in.name
        /\ calls[1].dob = resp.in.dob
        /\ resp.err = calls[1].err
        /\ resp.user = calls[1].user
        /\ ~IsValidationError(resp.err)
        /\ resp.err = NoError =>
               /\ resp.user.id \notin DOMAIN before
               /\ resp.user.id \in DOMAIN users
               /\ resp.user.name = resp.in.name
               /\ resp.user.dob = ParseDate(resp.in.dob).date
               /\ users[resp.user.id] = [name |-> resp.in.name, dob |-> resp.user.dob]
               /\ \A i \in DOMAIN before : users[i] = before[i]
        /\ resp.err # NoError => (resp.err = ErrStore /\ users = before)

C6_Witness ==
    /\ SvcDone("Create")
    /\ Len(resp.in.name) = 100
    /\ ParseOK(resp.in.dob)
    /\ resp.err = NoError
    /\ resp.user.id = 2

C6_WitnessStoreError ==
    /\ SvcDone("Create")
    /\ Len(resp.in.name) = 2
    /\ ParseOK(resp.in.dob)
    /\ resp.err = ErrStore

\* C7: DeleteUser(id) for an id that matches no stored user never reports
\* success: it returns the not-found error (or, when the round-trip itself
\* fails, the store's error).
C7_DeleteAbsentIsNotFound ==
    (SvcDone("Delete") /\ resp.in.id \notin DOMAIN before) =>
        (IsNotFound(resp.err) \/ resp.err = ErrStore)

\* C7, through HTTP: DELETE /users/:id for an id that matches no stored user
\* answers 404 and never 204.
C7_HttpDeleteAbsentIs404 ==
    (/\ HttpDone("Delete")
     /\ Atoi(resp.in.idStr).ok
     /\ \A i \in DOMAIN before : W(i) # Atoi(resp.in.idStr).val
     /\ resp.err # ErrStore) =>
        resp.status = StatusNotFound

\* C8: a GetUserByID(i) that follows a successful CreateUser(name, dob)
\* returning id i, with no write in between, finds the user, and returns
\* the name given and a dob that formats as YYYY-MM-DD to the dob given.
C8_CreateThenGet ==
    (SvcDone("Get") /\ made.id # 0 /\ resp.in.id = made.id) =>
        /\ resp.err \in {NoError, ErrStore}
        /\ resp.err = NoError =>
               /\ resp.user.id = made.id
               /\ resp.user.name = made.name
               /\ FormatDate(resp.user.dob) = made.dob

C8_Witness ==
    /\ SvcDone("Get")
    /\ made.id = 2
    /\ resp.in.id = 2
    /\ resp.err = NoError
    /\ Len(resp.user.name) = 100
    /\ FormatDate(resp.user.dob) = made.dob

\* the age the spec gives a dob on the date t, on plain numbers
WantAge(t, dob) ==
    (t.y - dob.y) - (IF LexBefore(<<t.m, t.d>>, <<dob.m, dob.d>>) THEN 1 ELSE 0)

\* C11: a successful GET /users/:id and every user of a successful list
\* envelope carry the age of the user's stored date of birth on the day of
\* the request; a successful POST /users and PUT /users/:id carry no age.
C11_AgeOnReadsOnly ==
    /\ (HttpDone("Get") /\ resp.status = StatusOK) =>
           /\ resp.body.id \in DOMAIN before
           /\ resp.body.hasAge
           /\ resp.body.age = WantAge(resp.at, before[resp.body.id].dob)
    /\ (HttpDone("List") /\ resp.status = StatusOK) =>
           \A k \in 1..Len(resp.body.data) :
               LET d == resp.body.data[k]
               IN  /\ d.id \in DOMAIN before
                   /\ d.hasAge
                   /\ d.age = WantAge(resp.at, before[d.id].dob)
    /\ (HttpDone("Create") /\ resp.status = StatusCreated) => ~resp.body.hasAge
    /\ (HttpDone("Update") /\ resp.status = StatusOK) => ~resp.body.hasAge

C11_Witness ==
    /\ HttpDone("List")
    /\ resp.status = StatusOK
    /\ Len(resp.body.data) = 2
    /\ resp.body.data[1].age = 24
    /\ resp.body.data[2].age = 23

C11_WitnessUpdate ==
    /\ HttpDone("Update")
    /\ resp.status = StatusOK
    /\ ~resp.body.hasAge

\* C12: a stored user holds a name and a date of birth and nothing else, no
\* create or update round-trip carries an age, and the age a GET returns is
\* the age of the stored dob on the day of the request: two reads of a user
\* with no write in between agree when made on the same day.
C12_AgeNeverPersisted ==
    /\ \A i \in DOMAIN users : DOMAIN users[i] = {"name", "dob"}
    /\ \A k \in 1..Len(calls) :
           calls[k].op \in {"Create", "Update"} =>
               /\ "age" \notin DOMAIN calls[k]
               /\ DOMAIN calls[k].user = {"id", "name", "dob"}
    /\ (HttpDone("Get") /\ resp.status = StatusOK) =>
           /\ resp.body.age = WantAge(resp.at, resp.user.dob)
           /\ (seen.id = resp.body.id /\ seen.at = resp.at) => seen.age = resp.body.age

\* the same stored user, read on two days with no write in between, with two ages
C12_Witness ==
    /\ HttpDone("Get")
    /\ resp.status = StatusOK
    /\ seen.id = resp.body.id
    /\ seen.age = 23
    /\ resp.body.age = 24
    /\ users = before

\* C13: every stored user has a name of 2 to 100 characters, whatever
\* CreateUser and UpdateUser calls the service has taken.
C13_StoredNamesAreValid ==
    \A i \in DOMAIN users : Len(users[i].name) >= 2 /\ Len(users[i].name) <= 100

\* C14: a returned envelope carries the total the count call answered and
\* the page the list call answered, read from the table as it was at the
\* time of the list; nothing brings the two into agreement.
C14_CountAndListAreSeparate ==
    (HttpDone("List") /\ resp.err = NoError) =>
        LET env == resp.env
        IN  /\ Len(calls) = 2
            /\ calls[1].op = "Count"
            /\ calls[2].op = "List"
            /\ env.total = calls[1].total
            /\ env.totalPages * env.limit >= calls[1].total
            /\ (env.totalPages - 1) * env.limit < calls[1].total \/ calls[1].total = 0
            /\ Len(env.data) = Len(calls[2].rows)
            /\ \A k \in 1..Len(env.data) :
                   /\ env.data[k].id = calls[2].rows[k].id
                   /\ env.data[k].id \in DOMAIN before
            /\ resp.status = StatusOK
            /\ resp.body = env

\* a create landed between the count and the list: no users, and a user
C14_Witness ==
    /\ HttpDone("List")
    /\ resp.status = StatusOK
    /\ resp.env.total = 0
    /\ resp.env.totalPages = 0
    /\ Len(resp.env.data) > 0

\* a delete landed between the count and the list: page 1 is short
C14_WitnessShortPage ==
    /\ HttpDone("List")
    /\ resp.status = StatusOK
    /\ resp.env.page = W(1)
    /\ Len(resp.env.data) < Min(resp.env.limit, resp.env.total)

\* the number of stored users with a smaller id
Rank(u, id) == Cardinality({j \in DOMAIN u : j < id})

\* the ids on page p of the given limit, as ListUsers returns it over the table u
PageIds(u, today, p, limit) ==
    LET env == ListUsersPage(u, today, ListUsersCount(u, W(p), W(limit), TRUE), TRUE).env
    IN  {env.data[k].id : k \in 1..Len(env.data)}

\* C15: with no write during the call, the data of a returned envelope is
\* the stored users whose rank by id is (page - 1) * limit or above and
\* below page * limit, in ascending order of id, each as stored; it has
\* min(limit, max(0, total - offset)) users, none for a page beyond
\* totalPages, and the pages 1..totalPages hold every stored user once.
C15_PageIsTheSortedSlice ==
    (resp.op = "List" /\ resp.err = NoError) =>
        LET env   == resp.env
            page  == WVal(env.page)
            limit == env.limit
            data  == env.data
            ids   == {data[k].id : k \in 1..Len(data)}
        IN  /\ \A k \in 1..Len(data) :
                   /\ data[k].id \in DOMAIN before
                   /\ data[k].name = before[data[k].id].name
                   /\ data[k].dob = FormatDate(before[data[k].id].dob)
            /\ \A k \in 1..(Len(data) - 1) : data[k].id < data[k + 1].id
            /\ ids = {i \in DOMAIN before : Rank(before, i) \div limit = page - 1}
            /\ page > env.totalPages => data = <<>>
            /\ page <= env.totalPages =>
                   Len(data) = Min(limit, env.total - (page - 1) * limit)
            /\ \A i \in DOMAIN before :
                   Cardinality({p \in 1..env.totalPages :
                                   i \in PageIds(before, now, p, limit)}) = 1

\* the date of birth each case of the test builds on the date t, where
\* (t.y - 20, t.m, t.d) is a calendar date
WantDob(t, how) ==
    IF how = "passed"
    THEN (IF t.m = 1 THEN Date(t.y - 21, 12, 1) ELSE Date(t.y - 20, t.m - 1, 1))
    ELSE IF how = "not yet"
    THEN (IF t.m = 12 THEN Date(t.y - 19, 1, 1) ELSE Date(t.y - 20, t.m + 1, 1))
    ELSE IF how = "today" THEN Date(t.y - 20, t.m, t.d)
    ELSE t

C16_WitnessLeapDay ==
    /\ SvcDone("Age")
    /\ resp.in.how = "today"
    /\ resp.at = Date(2120, 2, 29)
    /\ resp.in.dob = Date(2100, 3, 1)
    /\ resp.age = 19

\* C18: the offset GET /users hands to the gateway's list is
\* (page - 1) * limit for the page and the limit of the query, and is never
\* negative.
C18_OffsetNeverWraps ==
    (HttpDone("List") /\ Len(calls) = 2) =>
        /\ calls[2].offset >= 0
        /\ IsOffset(calls[2].offset, WantPage(WVal(resp.in.page)),
                    WantLimit(WVal(resp.in.limit)))

\* C19: GET, PUT and DELETE /users/:id with a decimal id act on the user
\* whose id is the number in the path; an id beyond 32 bits is answered 400
\* or 404, changes no user and returns none.
C19_PathIdIsNotNarrowed ==
    (/\ resp.via = "http"
     /\ resp.op \in {"Get", "Update", "Delete"}
     /\ Atoi(resp.in.idStr).ok) =>
        LET v == Atoi(resp.in.idStr).val
        IN  /\ ~WFits(v) =>
                   /\ resp.status \in {StatusBadRequest, StatusNotFound}
                   /\ users = before
            /\ (resp.status = StatusOK /\ resp.op \in {"Get", "Update"}) =>
                   W(resp.body.id) = v

\* C17: each CreateUser, GetUserByID, UpdateUser and DeleteUser makes at most
\* one round-trip and returns its error and user as they came; each
\* ListUsers makes one count and at most one list, none after a failed
\* count, and returns the error of the round-trip that failed with an empty
\* envelope.
C17_NoRetry ==
    /\ resp.op \in {"Create", "Get", "Update", "Delete"} =>
           /\ Len(calls) <= 1
           /\ ~resp.called => calls = <<>>
           /\ Len(calls) = 1 => (resp.err = calls[1].err /\ resp.user = calls[1].user)
    /\ resp.op = "List" =>
           /\ Len(calls) \in {1, 2}
           /\ calls[1].op = "Count"
           /\ calls[1].err # NoError =>
                  (Len(calls) = 1 /\ resp.err = calls[1].err /\ resp.env = NoEnvelope)
           /\ calls[1].err = NoError =>
                  /\ Len(calls) = 2
                  /\ calls[2].op = "List"
                  /\ resp.err = calls[2].err
                  /\ calls[2].err # NoError => resp.env = NoEnvelope

C17_Witness ==
    /\ HttpDone("List")
    /\ Len(calls) = 1
    /\ calls[1].err = ErrStore
    /\ resp.err = ErrStore

C17_WitnessGet ==
    /\ HttpDone("Get")
    /\ Len(calls) = 1
    /\ calls[1].err = ErrStore
    /\ resp.err = ErrStore

\* C9: PUT /users/:id with a well-formed id and a valid body, for an id that
\* matches no stored user, answers 404.
C9_PutAbsentIs404 ==
    (/\ HttpDone("Update")
     /\ Atoi(resp.in.idStr).ok
     /\ ~resp.in.bad
     /\ Len(resp.in.name) >= 2
     /\ Len(resp.in.name) <= 100
     /\ ParseOK(resp.in.dob)
     /\ \A i \in DOMAIN before : W(i) # Atoi(resp.in.idStr).val
     /\ resp.err # ErrStore) =>
        resp.status = StatusNotFound

\* C10: a store failure returned by the gateway is answered 500, on every
\* endpoint that reached the gateway.
C10_StoreFailureIs500 ==
    (resp.via = "http" /\ resp.called /\ resp.err = ErrStore) =>
        resp.status = StatusInternalServerError

====
